---- MODULE Spec2Model ----
(***************************************************************************)
(* The expression core of the calculator in src/calculator/cal.py: the     *)
(* expression buffer, the last answer, the display line, the lazily grown  *)
(* name table, the button handler (Calculator.buttonClicked) and the       *)
(* evaluator (Calculator.evaluateExpression), plus nPr / nCr of the        *)
(* function library.                                                       *)
(*                                                                         *)
(* Text is a sequence of one-character strings, so that DELETE, endswith,  *)
(* str() and the tokenizer of eval() work on characters as the code does.  *)
(* Python integers are unbounded: an integer is the sequence of its        *)
(* decimal digits.                                                         *)
(***************************************************************************)
EXTENDS Integers, Sequences, FiniteSets, TLC

VARIABLES
    expression,   \* self.expression
    last_ans,     \* self.last_ans
    allowed,      \* the keys of ALLOWED_NAMES
    display,      \* the text of self.display (QLineEdit)
    btn,          \* the button of the last press ("" before the first)
    prev,         \* self.expression before the last press, if that was a
                  \* function button or DELETE (<<>> after any other button)
    err,          \* the exception / message shown by the last press ("" if none)
    lib           \* one application of nPr and nCr (function library)

vars == <<expression, last_ans, allowed, display, btn, prev, err, lib>>

----------------------------------------------------------------------------
(* Bounds of the model.                                                    *)

\* Longest text the buffer holds in the key-press specifications.
MaxLen == 5
\* Longest buffer of the deletion specification.
DelLen == 10
\* Longest buffer of the base-conversion specification.
ConvLen == 5
\* Longest buffer of the wide-integer specification.
WideLen == 17
\* Number of pieces an evaluated text is put together from.
MaxPieces == 5
\* Arguments of nPr / nCr range over -MaxArg .. MaxArg.
MaxArg == 5

----------------------------------------------------------------------------
(* Text helpers.                                                           *)

NoError == ""

IsSuffix(s, t) ==
    /\ Len(s) <= Len(t)
    /\ SubSeq(t, Len(t) - Len(s) + 1, Len(t)) = s

DropLast(t, k) == SubSeq(t, 1, Len(t) - k)

\* Python's t[:-k] for k >= 1: empty when k >= len(t).
SliceOff(t, k) == IF k >= Len(t) THEN <<>> ELSE DropLast(t, k)

----------------------------------------------------------------------------
(* INSERTION_MAP, in the order of the dict literal.                        *)

INSERTION_MAP ==
    << <<"sin",       <<"s","i","n","(">> >>,
       <<"cos",       <<"c","o","s","(">> >>,
       <<"tan",       <<"t","a","n","(">> >>,
       <<"arcsin",    <<"a","r","c","s","i","n","(">> >>,
       <<"arccos",    <<"a","r","c","c","o","s","(">> >>,
       <<"arctan",    <<"a","r","c","t","a","n","(">> >>,
       <<"log",       <<"l","o","g","(">> >>,
       <<"ln",        <<"l","n","(">> >>,
       <<"sqrt",      <<"s","q","r","t","(">> >>,
       <<"factorial", <<"f","a","c","t","o","r","i","a","l","(">> >>,
       <<"cube",      <<"c","u","b","e","(">> >>,
       <<"square",    <<"s","q","u","a","r","e","(">> >>,
       <<"cuberoot",  <<"c","u","b","e","r","o","o","t","(">> >>,
       <<"10^x",      <<"t","e","n","_","p","o","w","(">> >>,
       <<"e^x",       <<"e","_","p","o","w","(">> >>,
       <<"^-1",       <<"r","e","c","i","p","(">> >>,
       <<"nPr",       <<"n","P","r","(">> >>,
       <<"nCr",       <<"n","C","r","(">> >>,
       <<"Pol",       <<"t","o","P","o","l","a","r","(">> >>,
       <<"Rec",       <<"t","o","R","e","c","(">> >>,
       <<"root",      <<"r","o","o","t","(">> >>,
       <<"power",     <<"p","o","w","e","r","(">> >> >>

InsertButtons == { INSERTION_MAP[i][1] : i \in 1..Len(INSERTION_MAP) }

Fragments == { INSERTION_MAP[i][2] : i \in 1..Len(INSERTION_MAP) }

\* INSERTION_MAP[b]
InsertionOf(b) ==
    LET i == CHOOSE j \in 1..Len(INSERTION_MAP) : INSERTION_MAP[j][1] = b
    IN  INSERTION_MAP[i][2]

\* sorted(INSERTION_MAP.items(), key=lambda x: -len(x[1])): Python's sort is
\* stable, so items of equal length keep the order of the table.  Insertion
\* of item x behind every item that is at least as long.
RECURSIVE InsertByLength(_, _)
InsertByLength(sorted, x) ==
    IF sorted = <<>> THEN <<x>>
    ELSE IF Len(Head(sorted)[2]) >= Len(x[2])
         THEN <<Head(sorted)>> \o InsertByLength(Tail(sorted), x)
         ELSE <<x>> \o sorted

RECURSIVE SortByLength(_, _)
SortByLength(items, sorted) ==
    IF items = <<>> THEN sorted
    ELSE SortByLength(Tail(items), InsertByLength(sorted, Head(items)))

SortedInsertions == SortByLength(INSERTION_MAP, <<>>)

\* The mutant of DeleteOrder: the table is walked unsorted.
DeleteOrderUnsorted == INSERTION_MAP

\* The order in which the DELETE branch tries the fragments.
DeleteOrder == SortedInsertions

\* The for loop of the DELETE branch: the first fragment, in the order given,
\* that the text ends with is cut off; <<FALSE, text>> when none matches.
RECURSIVE RemoveFirstMatch(_, _)
RemoveFirstMatch(text, items) ==
    IF items = <<>> THEN <<FALSE, text>>
    ELSE IF IsSuffix(Head(items)[2], text)
         THEN <<TRUE, DropLast(text, Len(Head(items)[2]))>>
         ELSE RemoveFirstMatch(text, Tail(items))

\* The mutant of DeleteLast: one character is removed, whatever the end is.
DeleteLastOneChar(text) == SliceOff(text, 1)

\* The DELETE branch as a function of the buffer.
DeleteLast(text) ==
    LET m == RemoveFirstMatch(text, DeleteOrder)
    IN  IF m[1] THEN m[2] ELSE SliceOff(text, 1)

----------------------------------------------------------------------------
(* Values: what eval() returns and what self.last_ans holds.  Every value  *)
(* is a record [t, v] with v a text:                                       *)
(*   text      a str: "" of __init__, or the text of a base conversion     *)
(*   int       the decimal digits of a non-negative int                    *)
(*   complex   the digits of b in the imaginary literal bj (real part 0)   *)
(*   tuple     the empty tuple (the buttons offer no comma)                *)
(*   function  the name under which ALLOWED_NAMES holds the callable       *)

TextV(s)  == [t |-> "text", v |-> s]
IntV(d)   == [t |-> "int", v |-> d]
ImagV(d)  == [t |-> "complex", v |-> d]
TupleV    == [t |-> "tuple", v |-> <<>>]
FuncV(nm) == [t |-> "function", v |-> nm]

\* Addresses that id() may give a function object (repr shows them).
Addresses ==
    { <<"7","f","3","a","5","c","0","d","1","e","5","0">>,
      <<"7","f","3","a","5","c","0","d","2","0","4","0">> }

\* ALLOWED_NAMES: <<name, kind, __name__ / __qualname__ shown by repr>>.
\* kind: "builtin" (a function of module math), "def" (a def of cal.py),
\* "lambda" (a lambda of cal.py), "float" (a float constant).
ALLOWED_NAMES ==
    << << <<"s","q","r","t">>, "builtin", <<"s","q","r","t">> >>,
       << <<"s","i","n">>, "builtin", <<"s","i","n">> >>,
       << <<"c","o","s">>, "builtin", <<"c","o","s">> >>,
       << <<"t","a","n">>, "builtin", <<"t","a","n">> >>,
       << <<"a","r","c","s","i","n">>, "builtin", <<"a","s","i","n">> >>,
       << <<"a","r","c","c","o","s">>, "builtin", <<"a","c","o","s">> >>,
       << <<"a","r","c","t","a","n">>, "builtin", <<"a","t","a","n">> >>,
       << <<"l","o","g">>, "lambda", <<"<","l","a","m","b","d","a",">">> >>,
       << <<"l","n">>, "builtin", <<"l","o","g">> >>,
       << <<"f","a","c","t","o","r","i","a","l">>, "builtin",
          <<"f","a","c","t","o","r","i","a","l">> >>,
       << <<"c","u","b","e">>, "def", <<"c","u","b","e">> >>,
       << <<"s","q","u","a","r","e">>, "def", <<"s","q","u","a","r","e">> >>,
       << <<"c","u","b","e","r","o","o","t">>, "def",
          <<"c","u","b","e","r","o","o","t">> >>,
       << <<"t","e","n","_","p","o","w">>, "def", <<"t","e","n","_","p","o","w">> >>,
       << <<"e","_","p","o","w">>, "def", <<"e","_","p","o","w">> >>,
       << <<"r","e","c","i","p">>, "def", <<"r","e","c","i","p">> >>,
       << <<"n","P","r">>, "def", <<"n","P","r">> >>,
       << <<"n","C","r">>, "def", <<"n","C","r">> >>,
       << <<"t","o","P","o","l","a","r">>, "def", <<"t","o","P","o","l","a","r">> >>,
       << <<"t","o","R","e","c">>, "def", <<"t","o","R","e","c">> >>,
       << <<"r","o","o","t">>, "def", <<"r","o","o","t">> >>,
       << <<"p","o","w","e","r">>, "def", <<"p","o","w","e","r">> >>,
       << <<"p","i">>, "float", <<>> >>,
       << <<"e">>, "float", <<>> >>,
       << <<"r","a","n","d","o","m">>, "lambda", <<"<","l","a","m","b","d","a",">">> >> >>

\* The keys of ALLOWED_NAMES when the module is loaded.
BaseNames == { ALLOWED_NAMES[i][1] : i \in 1..Len(ALLOWED_NAMES) }

\* The keys that the csc / sec / cot branch adds.
LazyNames == { <<"c","s","c">>, <<"s","e","c">>, <<"c","o","t">> }

\* __qualname__ of the lambdas made inside buttonClicked.
LocalLambda ==
    <<"C","a","l","c","u","l","a","t","o","r",".","b","u","t","t","o","n",
      "C","l","i","c","k","e","d",".","<","l","o","c","a","l","s",">",".",
      "<","l","a","m","b","d","a",">">>

NameEntry(nm) ==
    IF nm \in LazyNames THEN <<nm, "lambda", LocalLambda>>
    ELSE ALLOWED_NAMES[CHOOSE i \in 1..Len(ALLOWED_NAMES) : ALLOWED_NAMES[i][1] = nm]

\* repr() of a function object that lives at address addr.
FunctionRepr(nm, addr) ==
    LET e == NameEntry(nm)
    IN  IF e[2] = "builtin"
        THEN <<"<","b","u","i","l","t","-","i","n"," ","f","u","n","c","t","i","o","n"," ">>
             \o e[3] \o <<">">>
        ELSE <<"<","f","u","n","c","t","i","o","n"," ">> \o e[3]
             \o <<" ","a","t"," ","0","x">> \o addr \o <<">">>

\* str(value); addr is where a function object lives.
StrValue(val, addr) ==
    CASE val.t = "text"     -> val.v
      [] val.t = "int"      -> val.v
      [] val.t = "complex"  -> val.v \o <<"j">>
      [] val.t = "tuple"    -> <<"(", ")">>
      [] val.t = "function" -> FunctionRepr(val.v, addr)

----------------------------------------------------------------------------
(* Unbounded integers: a natural number is the sequence of its decimal     *)
(* digits, most significant first, without leading zeros ("0" is <<0>>).   *)

DecChars == <<"0","1","2","3","4","5","6","7","8","9">>
HexChars == DecChars \o <<"a","b","c","d","e","f">>

DecDigits == { DecChars[i] : i \in 1..10 }
HexLower  == { HexChars[i] : i \in 1..16 }
HexUpper  == {"A","B","C","D","E","F"}
HexDigits == HexLower \cup HexUpper

\* The value of a digit character (int(c, 16)).
DigitValue(c) ==
    IF c \in HexLower THEN (CHOOSE i \in 1..16 : HexChars[i] = c) - 1
    ELSE CASE c = "A" -> 10 [] c = "B" -> 11 [] c = "C" -> 12
           [] c = "D" -> 13 [] c = "E" -> 14 [] c = "F" -> 15

ToNat(chars) == [i \in 1..Len(chars) |-> DigitValue(chars[i])]
ToChars(nat) == [i \in 1..Len(nat) |-> HexChars[nat[i] + 1]]

RECURSIVE StripZeros(_)
StripZeros(d) ==
    IF Len(d) > 1 /\ Head(d) = 0 THEN StripZeros(Tail(d)) ELSE d

\* a * m + c for a small factor m and c < m: one more digit of a literal in
\* base m, and doubling (m = 2, c = 0).  Works from the last digit.
RECURSIVE MulAddFrom(_, _, _, _)
MulAddFrom(a, i, m, carry) ==
    IF i = 0
    THEN IF carry = 0 THEN <<>> ELSE MulAddFrom(<<>>, 0, m, carry \div 10) \o <<carry % 10>>
    ELSE LET x == a[i] * m + carry
         IN  MulAddFrom(a, i - 1, m, x \div 10) \o <<x % 10>>

MulSmallAdd(a, m, c) == StripZeros(<<0>> \o MulAddFrom(a, Len(a), m, c))

\* a + b, digit by digit from the right.
RECURSIVE AddFrom(_, _, _, _, _)
AddFrom(a, i, b, j, carry) ==
    IF i = 0 /\ j = 0
    THEN IF carry = 0 THEN <<>> ELSE <<carry>>
    ELSE LET x == (IF i > 0 THEN a[i] ELSE 0) + (IF j > 0 THEN b[j] ELSE 0) + carry
         IN  AddFrom(a, IF i > 0 THEN i - 1 ELSE 0, b, IF j > 0 THEN j - 1 ELSE 0,
                     x \div 10) \o <<x % 10>>

AddNat(a, b) == StripZeros(<<0>> \o AddFrom(a, Len(a), b, Len(b), 0))

\* Long division of a by a small divisor d: <<quotient, remainder>>.
RECURSIVE DivFrom(_, _, _, _)
DivFrom(a, i, d, rem) ==
    IF i > Len(a) THEN <<<<>>, rem>>
    ELSE LET x == rem * 10 + a[i]
             rest == DivFrom(a, i + 1, d, x % d)
         IN  << <<x \div d>> \o rest[1], rest[2] >>

DivModSmall(a, d) ==
    LET r == DivFrom(a, 1, d, 0) IN <<StripZeros(r[1]), r[2]>>

IsZero(a) == a = <<0>>

RECURSIVE LessFrom(_, _, _)
LessFrom(a, b, i) ==
    IF i > Len(a) THEN FALSE
    ELSE IF a[i] # b[i] THEN a[i] < b[i]
    ELSE LessFrom(a, b, i + 1)

\* a < b
LessNat(a, b) ==
    IF Len(a) # Len(b) THEN Len(a) < Len(b) ELSE LessFrom(a, b, 1)

\* The digits of a in base b, most significant first (hex(), bin(), oct()
\* after their prefix).
RECURSIVE ToBase(_, _)
ToBase(a, b) ==
    LET qr == DivModSmall(a, b)
    IN  IF IsZero(qr[1]) THEN <<qr[2]>> ELSE ToBase(qr[1], b) \o <<qr[2]>>

----------------------------------------------------------------------------
(* float(): an IEEE 754 double has a 53 bit significand.                   *)

\* 2 ** 53
TwoPow53 == <<9,0,0,7,1,9,9,2,5,4,7,4,0,9,9,2>>

\* Halve q until it fits 53 bits: last is the bit shifted out last, sticky
\* whether a 1 was shifted out before it, s the number of halvings.
RECURSIVE Shrink(_, _, _, _)
Shrink(q, last, sticky, s) ==
    IF LessNat(q, TwoPow53) THEN <<q, last, sticky, s>>
    ELSE LET qr == DivModSmall(q, 2)
         IN  Shrink(qr[1], qr[2], sticky \/ last = 1, s + 1)

RECURSIVE Doubled(_, _)
Doubled(q, s) == IF s = 0 THEN q ELSE MulSmallAdd(Doubled(q, s - 1), 2, 0)

\* int(float(a)) for a natural number a: a rounded to the nearest double,
\* ties to the even significand.
FloatOfNat(a) ==
    LET sh == Shrink(a, 0, FALSE, 0)
        q  == sh[1]
        up == sh[2] = 1 /\ (sh[3] \/ q[Len(q)] % 2 = 1)
    IN  Doubled(IF up THEN AddNat(q, <<1>>) ELSE q, sh[4])

----------------------------------------------------------------------------
(* eval(): the tokens of the buffer.  The model covers the integer and     *)
(* imaginary literals, names, the keyword "or", and the operators + / ( ). *)
(* A text with anything else (a float literal, another operator or         *)
(* keyword) is Beyond the model: the model takes no position on it.        *)

LowerLetters == { "a", "b", "c", "d", "e", "f", "g", "h", "i", "j", "k", "l", "m",
                  "n", "o", "p", "q", "r", "s", "t", "u", "v", "w", "x", "y", "z" }
UpperLetters == { "A", "B", "C", "D", "E", "F", "G", "H", "I", "J", "K", "L", "M",
                  "N", "O", "P", "Q", "R", "S", "T", "U", "V", "W", "X", "Y", "Z" }
Letters    == LowerLetters \cup UpperLetters \cup {"_"}
IdentChars == Letters \cup DecDigits
OctDigits  == {"0","1","2","3","4","5","6","7"}
BinDigits  == {"0","1"}

\* The outcomes of a failed evaluation: the exception raised, or Beyond.
SyntaxError       == "SyntaxError"
NameError         == "NameError"
TypeError         == "TypeError"
ValueError        == "ValueError"
ZeroDivisionError == "ZeroDivisionError"
Beyond            == "Beyond"

\* Every Python keyword but "or".
OtherKeywords ==
    { <<"F", "a", "l", "s", "e">>, <<"N", "o", "n", "e">>,
      <<"T", "r", "u", "e">>, <<"a", "n", "d">>, <<"a", "s">>,
      <<"a", "s", "s", "e", "r", "t">>, <<"a", "s", "y", "n", "c">>,
      <<"a", "w", "a", "i", "t">>, <<"b", "r", "e", "a", "k">>,
      <<"c", "l", "a", "s", "s">>,
      <<"c", "o", "n", "t", "i", "n", "u", "e">>, <<"d", "e", "f">>,
      <<"d", "e", "l">>, <<"e", "l", "i", "f">>, <<"e", "l", "s", "e">>,
      <<"e", "x", "c", "e", "p", "t">>,
      <<"f", "i", "n", "a", "l", "l", "y">>, <<"f", "o", "r">>,
      <<"f", "r", "o", "m">>, <<"g", "l", "o", "b", "a", "l">>, <<"i", "f">>,
      <<"i", "m", "p", "o", "r", "t">>, <<"i", "n">>, <<"i", "s">>,
      <<"l", "a", "m", "b", "d", "a">>,
      <<"n", "o", "n", "l", "o", "c", "a", "l">>, <<"n", "o", "t">>,
      <<"p", "a", "s", "s">>, <<"r", "a", "i", "s", "e">>,
      <<"r", "e", "t", "u", "r", "n">>, <<"t", "r", "y">>,
      <<"w", "h", "i", "l", "e">>, <<"w", "i", "t", "h">>,
      <<"y", "i", "e", "l", "d">> }

OrKeyword == <<"o", "r">>

CharAt(text, i) == IF i >= 1 /\ i <= Len(text) THEN text[i] ELSE ""

\* The first index from i on whose character is not in S.
RECURSIVE RunEnd(_, _, _)
RunEnd(text, i, S) ==
    IF i <= Len(text) /\ text[i] \in S THEN RunEnd(text, i + 1, S) ELSE i

NormChars(d) == ToChars(StripZeros(ToNat(d)))

\* int(d, b) for a nonempty string of digits of base b.
RECURSIVE FromBaseNat(_, _, _, _)
FromBaseNat(d, i, b, acc) ==
    IF i > Len(d) THEN acc
    ELSE FromBaseNat(d, i + 1, b, MulSmallAdd(acc, b, DigitValue(d[i])))

FromBase(d, b) == ToChars(FromBaseNat(d, 1, b, <<0>>))

NumTok(val)  == [k |-> "num",  s |-> <<>>, val |-> val]
NameTok(w)   == [k |-> "name", s |-> w,    val |-> TupleV]
KwTok(w)     == [k |-> "kw",   s |-> w,    val |-> TupleV]
OpTok(c)     == [k |-> "op",   s |-> <<c>>, val |-> TupleV]

Scanned(tok, next) == [st |-> "ok", tok |-> tok, next |-> next]
NotScanned(why)    == [st |-> why,  tok |-> OpTok(""), next |-> 0]

\* A number may be followed directly by a keyword: "1or 2" is 1 or 2.
KeywordAhead(text, j) ==
    LET c == CharAt(text, j)
        d == CharAt(text, j + 1)
        f == CharAt(text, j + 2)
        g == CharAt(text, j + 3)
    IN  \/ c = "a" /\ d = "n" /\ f = "d"
        \/ c = "e" /\ d = "l" /\ f = "s" /\ g = "e"
        \/ c = "f" /\ d = "o" /\ f = "r"
        \/ c = "i" /\ d \in {"f", "n", "s"}
        \/ c = "o" /\ d = "r"
        \/ c = "n" /\ d = "o" /\ f = "t"

\* The end of a number at index j: a letter or a digit directly after it is
\* a syntax error, unless a keyword starts there.
EndOfNumber(text, val, j) ==
    IF CharAt(text, j) \in IdentChars /\ ~KeywordAhead(text, j)
    THEN NotScanned(SyntaxError)
    ELSE Scanned(NumTok(val), j)

\* 0x.., 0o.., 0b..: at least one digit of the base must follow.
ScanPrefixed(text, i, digits, base) ==
    LET j == RunEnd(text, i + 2, digits)
    IN  IF CharAt(text, i + 2) = "_" \/ CharAt(text, j) = "_" THEN NotScanned(Beyond)
        ELSE IF j = i + 2 THEN NotScanned(SyntaxError)
        ELSE EndOfNumber(text, IntV(FromBase(SubSeq(text, i + 2, j - 1), base)), j)

\* A decimal literal: an integer (without leading zeros, unless it is all
\* zeros), or with the suffix j an imaginary number.
ScanDecimal(text, i) ==
    LET j      == RunEnd(text, i, DecDigits)
        d      == SubSeq(text, i, j - 1)
        c      == CharAt(text, j)
        c2     == CharAt(text, j + 1)
        c3     == CharAt(text, j + 2)
        zeros  == d[1] = "0" /\ \E k \in 1..Len(d) : d[k] # "0"
    IN  IF c \in {"_", "."} THEN NotScanned(Beyond)
        ELSE IF c \in {"e", "E"}
        THEN IF c2 \in DecDigits \/ (c2 \in {"+", "-"} /\ c3 \in DecDigits)
                  \/ KeywordAhead(text, j)
             THEN NotScanned(Beyond)
             ELSE NotScanned(SyntaxError)
        ELSE IF c \in {"j", "J"}
        THEN IF Len(NormChars(d)) > 15 THEN NotScanned(Beyond)
             ELSE EndOfNumber(text, ImagV(NormChars(d)), j + 1)
        ELSE IF zeros THEN NotScanned(SyntaxError)
        ELSE EndOfNumber(text, IntV(NormChars(d)), j)

ScanNumber(text, i) ==
    LET c == CharAt(text, i + 1)
    IN  IF text[i] = "0" /\ c \in {"x", "X"} THEN ScanPrefixed(text, i, HexDigits, 16)
        ELSE IF text[i] = "0" /\ c \in {"o", "O"} THEN ScanPrefixed(text, i, OctDigits, 8)
        ELSE IF text[i] = "0" /\ c \in {"b", "B"} THEN ScanPrefixed(text, i, BinDigits, 2)
        ELSE ScanDecimal(text, i)

ScanName(text, i) ==
    LET j == RunEnd(text, i, IdentChars)
        w == SubSeq(text, i, j - 1)
    IN  IF w = OrKeyword THEN Scanned(KwTok(w), j)
        ELSE IF w \in OtherKeywords THEN NotScanned(Beyond)
        ELSE Scanned(NameTok(w), j)

ScanOp(text, i) ==
    IF text[i] \in {"(", ")"} THEN Scanned(OpTok(text[i]), i + 1)
    ELSE IF text[i] = "+" /\ CharAt(text, i + 1) # "=" THEN Scanned(OpTok("+"), i + 1)
    ELSE IF text[i] = "/" /\ CharAt(text, i + 1) \notin {"/", "="} THEN Scanned(OpTok("/"), i + 1)
    ELSE NotScanned(Beyond)

RECURSIVE Scan(_, _, _)
Scan(text, i, toks) ==
    IF i > Len(text) THEN [st |-> "ok", toks |-> toks]
    ELSE IF text[i] = " " THEN Scan(text, i + 1, toks)
    ELSE LET r == IF text[i] \in DecDigits THEN ScanNumber(text, i)
                  ELSE IF text[i] \in Letters THEN ScanName(text, i)
                  ELSE ScanOp(text, i)
         IN  IF r.st = "ok" THEN Scan(text, r.next, Append(toks, r.tok))
             ELSE [st |-> r.st, toks |-> <<>>]

Tokenize(text) == Scan(text, 1, <<>>)

----------------------------------------------------------------------------
(* eval(): the syntax tree.  With the tokens above an expression is        *)
(*   disjunction := sum ("or" sum)*        sum     := term ("+" term)*     *)
(*   term        := factor ("/" factor)*   factor  := "+" factor | primary *)
(*   primary     := atom ( "(" [disjunction] ")" )*                        *)
(*   atom        := NAME | NUMBER | "(" ")" | "(" disjunction ")"          *)

NumNode(val)      == [k |-> "num", val |-> val]
NameNode(w)       == [k |-> "name", id |-> w]
TupleNode         == [k |-> "tuple"]
PosNode(a)        == [k |-> "pos", a |-> a]
BinNode(op, a, b) == [k |-> "bin", op |-> op, a |-> a, b |-> b]
OrNode(a, b)      == [k |-> "or", a |-> a, b |-> b]
CallNode(f, args) == [k |-> "call", f |-> f, args |-> args]

Parsed(node, next) == [ok |-> TRUE, node |-> node, next |-> next]
NotParsed          == [ok |-> FALSE, node |-> TupleNode, next |-> 0]

IsOp(toks, i, c) == i <= Len(toks) /\ toks[i].k = "op" /\ toks[i].s = <<c>>
IsKw(toks, i)    == i <= Len(toks) /\ toks[i].k = "kw"

RECURSIVE ParseOr(_, _), ParseOrRest(_, _, _), ParseSum(_, _), ParseSumRest(_, _, _)
RECURSIVE ParseTerm(_, _), ParseTermRest(_, _, _), ParseFactor(_, _)
RECURSIVE ParseTrailers(_, _, _), ParseAtom(_, _)

\* r is the expression read after a "(": its ")" must follow.
Closing(toks, r) ==
    IF r.ok /\ IsOp(toks, r.next, ")") THEN Parsed(r.node, r.next + 1)
    ELSE NotParsed

ParseClosed(toks, i) == Closing(toks, ParseOr(toks, i))

ParseAtom(toks, i) ==
    IF i > Len(toks) THEN NotParsed
    ELSE IF toks[i].k = "num" THEN Parsed(NumNode(toks[i].val), i + 1)
    ELSE IF toks[i].k = "name" THEN Parsed(NameNode(toks[i].s), i + 1)
    ELSE IF IsOp(toks, i, "(")
    THEN IF IsOp(toks, i + 1, ")") THEN Parsed(TupleNode, i + 2)
         ELSE ParseClosed(toks, i + 1)
    ELSE NotParsed

\* r is the argument read after the "(" of a call of node.
CallWith(toks, node, r) ==
    IF r.ok THEN ParseTrailers(toks, CallNode(node, <<r.node>>), r.next)
    ELSE NotParsed

ParseTrailers(toks, node, i) ==
    IF ~IsOp(toks, i, "(") THEN Parsed(node, i)
    ELSE IF IsOp(toks, i + 1, ")")
    THEN ParseTrailers(toks, CallNode(node, <<>>), i + 2)
    ELSE CallWith(toks, node, ParseClosed(toks, i + 1))

Trailing(toks, a) ==
    IF a.ok THEN ParseTrailers(toks, a.node, a.next) ELSE NotParsed

ParsePrimary(toks, i) == Trailing(toks, ParseAtom(toks, i))

Signed(r) == IF r.ok THEN Parsed(PosNode(r.node), r.next) ELSE NotParsed

ParseFactor(toks, i) ==
    IF IsOp(toks, i, "+") THEN Signed(ParseFactor(toks, i + 1))
    ELSE ParsePrimary(toks, i)

TermWith(toks, left, r) ==
    IF r.ok THEN ParseTermRest(toks, BinNode("/", left, r.node), r.next)
    ELSE NotParsed

ParseTermRest(toks, left, i) ==
    IF ~IsOp(toks, i, "/") THEN Parsed(left, i)
    ELSE TermWith(toks, left, ParseFactor(toks, i + 1))

TermAfter(toks, f) ==
    IF f.ok THEN ParseTermRest(toks, f.node, f.next) ELSE NotParsed

ParseTerm(toks, i) == TermAfter(toks, ParseFactor(toks, i))

SumWith(toks, left, r) ==
    IF r.ok THEN ParseSumRest(toks, BinNode("+", left, r.node), r.next)
    ELSE NotParsed

ParseSumRest(toks, left, i) ==
    IF ~IsOp(toks, i, "+") THEN Parsed(left, i)
    ELSE SumWith(toks, left, ParseTerm(toks, i + 1))

SumAfter(toks, t) ==
    IF t.ok THEN ParseSumRest(toks, t.node, t.next) ELSE NotParsed

ParseSum(toks, i) == SumAfter(toks, ParseTerm(toks, i))

OrWith(toks, left, r) ==
    IF r.ok THEN ParseOrRest(toks, OrNode(left, r.node), r.next)
    ELSE NotParsed

ParseOrRest(toks, left, i) ==
    IF ~IsKw(toks, i) THEN Parsed(left, i)
    ELSE OrWith(toks, left, ParseSum(toks, i + 1))

OrAfter(toks, t) ==
    IF t.ok THEN ParseOrRest(toks, t.node, t.next) ELSE NotParsed

ParseOr(toks, i) == OrAfter(toks, ParseSum(toks, i))

\* The whole token list must be one expression.
WholeText(toks, r) ==
    IF r.ok /\ r.next = Len(toks) + 1 THEN r ELSE NotParsed

Parse(toks) == WholeText(toks, ParseOr(toks, 1))

----------------------------------------------------------------------------
(* eval(): the value of the tree, in Python's order of evaluation.  An     *)
(* outcome records the value or the exception, and the names whose lookup  *)
(* was attempted on the way.                                               *)

Returns(val, looked) == [ok |-> TRUE, val |-> val, err |-> NoError, looked |-> looked]
Raises(e, looked)    == [ok |-> FALSE, val |-> TupleV, err |-> e, looked |-> looked]

IsNumber(val) == val.t \in {"int", "complex"}
IsZeroValue(val) == val.v = <<"0">>

\* bool(val)
Truthy(val) ==
    IF IsNumber(val) THEN ~IsZeroValue(val) ELSE val.t = "function"

\* The mutant of Resolve: a name that is not allowed evaluates to 0.
ResolveAnything(id, names) ==
    IF id \in names THEN Returns(FuncV(id), {id}) ELSE Returns(IntV(<<"0">>), {id})

\* A name is looked up in ALLOWED_NAMES, then in the empty globals and
\* builtins.  The constants pi and e are floats.
Resolve(id, names) ==
    IF id \notin names THEN Raises(NameError, {id})
    ELSE IF NameEntry(id)[2] = "float" THEN Raises(Beyond, {id})
    ELSE Returns(FuncV(id), {id})

\* +a
Positive(val, looked) ==
    IF IsNumber(val) THEN Returns(val, looked) ELSE Raises(TypeError, looked)

\* a + b
Plus(a, b, looked) ==
    IF a.t = "int" /\ b.t = "int"
    THEN Returns(IntV(ToChars(AddNat(ToNat(a.v), ToNat(b.v)))), looked)
    ELSE IF IsNumber(a) /\ IsNumber(b) THEN Raises(Beyond, looked)
    ELSE IF a.t = "tuple" /\ b.t = "tuple" THEN Returns(TupleV, looked)
    ELSE Raises(TypeError, looked)

\* a / b: a float or a complex number unless b is zero.
Divide(a, b, looked) ==
    IF ~(IsNumber(a) /\ IsNumber(b)) THEN Raises(TypeError, looked)
    ELSE IF IsZeroValue(b) THEN Raises(ZeroDivisionError, looked)
    ELSE Raises(Beyond, looked)

LogNames    == { <<"l", "n">>, <<"l", "o", "g">> }
InverseSine == { <<"c", "s", "c">>, <<"c", "o", "t">> }
RandomName  == <<"r", "a", "n", "d", "o", "m">>
SecName     == <<"s", "e", "c">>

\* f(*args) with no or one argument.  The functions of the model: log and
\* ln (math domain error at 0), csc and cot (1 / sin(0), 1 / tan(0)), sec,
\* and random; the results of the others are floats.
Apply(f, args, looked) ==
    IF f.t # "function" THEN Raises(TypeError, looked)
    ELSE IF f.v = RandomName
    THEN IF Len(args) = 0 THEN Raises(Beyond, looked) ELSE Raises(TypeError, looked)
    ELSE IF Len(args) = 0 THEN Raises(TypeError, looked)
    ELSE IF f.v \in LogNames
    THEN IF args[1].t # "int" THEN Raises(TypeError, looked)
         ELSE IF IsZeroValue(args[1]) THEN Raises(ValueError, looked)
         ELSE Raises(Beyond, looked)
    ELSE IF f.v \in InverseSine
    THEN IF args[1].t # "int" THEN Raises(TypeError, looked)
         ELSE IF IsZeroValue(args[1]) THEN Raises(ZeroDivisionError, looked)
         ELSE Raises(Beyond, looked)
    ELSE IF f.v = SecName
    THEN IF args[1].t # "int" THEN Raises(TypeError, looked)
         ELSE Raises(Beyond, looked)
    ELSE Raises(Beyond, looked)

RECURSIVE Eval(_, _)
Eval(node, names) ==
    IF node.k = "num" THEN Returns(node.val, {})
    ELSE IF node.k = "tuple" THEN Returns(TupleV, {})
    ELSE IF node.k = "name" THEN Resolve(node.id, names)
    ELSE IF node.k = "pos"
    THEN LET a == Eval(node.a, names)
         IN  IF a.ok THEN Positive(a.val, a.looked) ELSE a
    ELSE IF node.k = "or"
    THEN LET a == Eval(node.a, names)
             b == Eval(node.b, names)
         IN  IF ~a.ok \/ Truthy(a.val) THEN a
             ELSE [b EXCEPT !.looked = a.looked \cup b.looked]
    ELSE IF node.k = "bin"
    THEN LET a == Eval(node.a, names)
             b == Eval(node.b, names)
             looked == a.looked \cup b.looked
         IN  IF ~a.ok THEN a
             ELSE IF ~b.ok THEN Raises(b.err, looked)
             ELSE IF node.op = "+" THEN Plus(a.val, b.val, looked)
             ELSE Divide(a.val, b.val, looked)
    ELSE LET f == Eval(node.f, names)
             x == Eval(node.args[1], names)
         IN  IF ~f.ok THEN f
             ELSE IF Len(node.args) = 0 THEN Apply(f.val, <<>>, f.looked)
             ELSE IF ~x.ok THEN Raises(x.err, f.looked \cup x.looked)
             ELSE Apply(f.val, <<x.val>>, f.looked \cup x.looked)

EvalTree(p, names) ==
    IF p.ok THEN Eval(p.node, names) ELSE Raises(SyntaxError, {})

EvalTokens(t, names) ==
    IF t.st = "ok" THEN EvalTree(Parse(t.toks), names) ELSE Raises(t.st, {})

\* eval(text, {"__builtins__": {}}, ALLOWED_NAMES)
Evaluate(text, names) == EvalTokens(Tokenize(text), names)

----------------------------------------------------------------------------
(* The branches of Calculator.buttonClicked that edit the buffer.  cap is  *)
(* the longest buffer the specification at hand explores.                  *)

NoCall == [fn |-> "none", n |-> 0, r |-> 0, perm |-> FALSE, out |-> <<"none", 0>>]

Init ==
    /\ expression = <<>>
    /\ last_ans = TextV(<<>>)
    /\ allowed = BaseNames
    /\ display = <<>>
    /\ btn = ""
    /\ prev = <<>>
    /\ err = NoError
    /\ lib = NoCall

\* What a press records.
Pressed(b, e) ==
    /\ btn' = b
    /\ prev' = <<>>
    /\ err' = e
    /\ lib' = lib

\* What a function button and DELETE record: the buffer they found as well.
Edited(b) ==
    /\ btn' = b
    /\ prev' = expression
    /\ err' = NoError
    /\ lib' = lib

Clear ==
    /\ expression' = <<>>
    /\ display' = expression'
    /\ Pressed("CLEAR", NoError)
    /\ UNCHANGED <<last_ans, allowed>>

Delete ==
    /\ expression' = DeleteLast(expression)
    /\ display' = expression'
    /\ Edited("DELETE")
    /\ UNCHANGED <<last_ans, allowed>>

Ans(cap) ==
    \E addr \in Addresses :
        /\ Len(expression) + Len(StrValue(last_ans, addr)) <= cap
        /\ expression' = expression \o StrValue(last_ans, addr)
        /\ display' = expression'
        /\ Pressed("ANS", NoError)
        /\ UNCHANGED <<last_ans, allowed>>

ImagUnit(cap) ==
    /\ Len(expression) + 1 <= cap
    /\ expression' = expression \o <<"j">>
    /\ display' = expression'
    /\ Pressed("i", NoError)
    /\ UNCHANGED <<last_ans, allowed>>

Random(cap) ==
    /\ Len(expression) + 8 <= cap
    /\ expression' = expression \o <<"r","a","n","d","o","m","(",")">>
    /\ display' = expression'
    /\ Pressed("random", NoError)
    /\ UNCHANGED <<last_ans, allowed>>

TrigText(b) ==
    CASE b = "csc" -> <<"c","s","c","(">>
      [] b = "sec" -> <<"s","e","c","(">>
      [] b = "cot" -> <<"c","o","t","(">>

\* The display as the csc / sec / cot branch leaves it: the branch returns
\* without a setText.
TrigDisplay(old, new) == old

Trig(S, cap) ==
    \E b \in S :
        /\ Len(expression) + 4 <= cap
        /\ expression' = expression \o TrigText(b)
        /\ allowed' = allowed \cup LazyNames
        /\ display' = TrigDisplay(display, expression')
        /\ Pressed(b, NoError)
        /\ UNCHANGED last_ans

Insert(S, cap) ==
    \E b \in S :
        /\ Len(expression) + Len(InsertionOf(b)) <= cap
        /\ expression' = expression \o InsertionOf(b)
        /\ display' = expression'
        /\ Edited(b)
        /\ UNCHANGED <<last_ans, allowed>>

\* Buttons of the final else: digits, ".", the operators, parentheses, pi, e.
LiteralText(b) == IF b = "pi" THEN <<"p","i">> ELSE <<b>>

Literal(S, cap) ==
    \E b \in S :
        /\ Len(expression) + Len(LiteralText(b)) <= cap
        /\ expression' = expression \o LiteralText(b)
        /\ display' = expression'
        /\ Pressed(b, NoError)
        /\ UNCHANGED <<last_ans, allowed>>

----------------------------------------------------------------------------
(* EXE: Calculator.evaluateExpression.                                     *)

\* What a successful evaluation leaves: the result and its text.
ExeSuccess(val, addr) ==
    [expression |-> StrValue(val, addr), last_ans |-> val,
     display |-> StrValue(val, addr)]

\* The mutant of ExeFailure: an error that clears the input.
ExeFailureClears == [expression |-> <<>>, last_ans |-> last_ans, display |-> <<>>]

\* What the except branch leaves: showError only.
ExeFailure == [expression |-> expression, last_ans |-> last_ans, display |-> display]

Exe(cap) ==
    \E out \in {Evaluate(expression, allowed)}, addr \in Addresses :
        /\ out.err # Beyond
        /\ Len(ExeSuccess(out.val, addr).expression) <= cap
        /\ expression' = IF out.ok THEN ExeSuccess(out.val, addr).expression
                         ELSE ExeFailure.expression
        /\ last_ans' = IF out.ok THEN ExeSuccess(out.val, addr).last_ans
                       ELSE ExeFailure.last_ans
        /\ display' = IF out.ok THEN ExeSuccess(out.val, addr).display
                      ELSE ExeFailure.display
        /\ Pressed("EXE", out.err)
        /\ UNCHANGED allowed

----------------------------------------------------------------------------
(* HEX / BIN / DEC / OCT.                                                  *)

ConversionError == "No valid integer stored in ANS for conversion."

Converted(v)  == [ok |-> TRUE, v |-> v]
NotConverted  == [ok |-> FALSE, v |-> <<0>>]

\* float() reads a text of decimal digits; a text is "" or the result of an
\* earlier conversion (digits, or digits after 0x, 0b, 0o).
DecimalText(txt) == txt # <<>> /\ \A i \in 1..Len(txt) : txt[i] \in DecDigits

\* int(float(self.last_ans))
IntOfAnswer(ans) ==
    IF ans.t = "int" THEN Converted(FloatOfNat(ToNat(ans.v)))
    ELSE IF ans.t = "text" /\ DecimalText(ans.v)
    THEN Converted(FloatOfNat(StripZeros(ToNat(ans.v))))
    ELSE NotConverted

\* hex(v), bin(v), str(v), oct(v)
ConvertText(b, v) ==
    CASE b = "HEX" -> <<"0", "x">> \o ToChars(ToBase(v, 16))
      [] b = "BIN" -> <<"0", "b">> \o ToChars(ToBase(v, 2))
      [] b = "DEC" -> ToChars(v)
      [] b = "OCT" -> <<"0", "o">> \o ToChars(ToBase(v, 8))

Convert(S, cap) ==
    \E b \in S :
        LET r == IntOfAnswer(last_ans)
            c == ConvertText(b, r.v)
        IN  IF r.ok
            THEN /\ Len(c) <= cap
                 /\ expression' = c
                 /\ display' = expression'
                 /\ last_ans' = TextV(c)
                 /\ Pressed(b, NoError)
                 /\ UNCHANGED allowed
            ELSE /\ Pressed(b, ConversionError)
                 /\ UNCHANGED <<expression, display, last_ans, allowed>>

----------------------------------------------------------------------------
(* The key-press specification: the buttons 0 ) / ln i EXE ANS HEX DEC     *)
(* CLEAR DELETE.  Every number is zero, so that each kind of failure has a *)
(* short input: ")" (syntax), "j" (name), "ln()" (type), "ln(0)" (domain), *)
(* "0/0" (division by zero).                                               *)

KeyLiterals == {"0", ")", "/"}

Next ==
    \/ Literal(KeyLiterals, MaxLen)
    \/ Insert({"ln"}, MaxLen)
    \/ ImagUnit(MaxLen)
    \/ Exe(MaxLen)
    \/ Ans(MaxLen)
    \/ Convert({"HEX", "DEC"}, MaxLen)
    \/ Clear
    \/ Delete

Spec == Init /\ [][Next]_vars

----------------------------------------------------------------------------
(* The deletion specification: function buttons, random, csc, i, CLEAR and *)
(* DELETE.                                                                 *)

DelInserts == {"sin", "arcsin"}

NextDel ==
    \/ Insert(DelInserts, DelLen)
    \/ Random(DelLen)
    \/ Trig({"csc"}, DelLen)
    \/ ImagUnit(DelLen)
    \/ Clear
    \/ Delete

SpecDel == Init /\ [][NextDel]_vars

----------------------------------------------------------------------------
(* The evaluation specification: EXE as a function of the buffer.  The     *)
(* buffer is any text put together from at most MaxPieces of the pieces    *)
(*   "(" ")" "3" "+"   the buttons of that name,                           *)
(*   "r"               random, then DELETE seven times,                    *)
(*   "0o"              ANS, then DELETE, with "0o3" the last answer,       *)
(* and "0o3" is the last answer: 3, EXE, OCT, CLEAR come first.            *)

Pieces == { <<"(">>, <<")">>, <<"3">>, <<"+">>, <<"r">>, <<"0", "o">> }

RECURSIVE Concat(_)
Concat(ps) == IF ps = <<>> THEN <<>> ELSE Head(ps) \o Concat(Tail(ps))

InitEval ==
    /\ \E n \in 0..MaxPieces : \E ps \in [1..n -> Pieces] : expression = Concat(ps)
    /\ display = expression
    /\ last_ans = TextV(<<"0", "o", "3">>)
    /\ allowed = BaseNames
    /\ btn = ""
    /\ prev = <<>>
    /\ err = NoError
    /\ lib = NoCall

NextEval == Exe(2 * MaxPieces)

SpecEval == InitEval /\ [][NextEval]_vars

----------------------------------------------------------------------------
(* The base-conversion specification: the buttons 2 6 EXE ANS HEX BIN DEC  *)
(* OCT.                                                                    *)

NextConv ==
    \/ Literal({"2", "6"}, ConvLen)
    \/ Exe(ConvLen)
    \/ Ans(ConvLen)
    \/ Convert({"HEX", "BIN", "DEC", "OCT"}, ConvLen)

SpecConv == Init /\ [][NextConv]_vars

----------------------------------------------------------------------------
(* The wide-integer specification: the buttons 1 EXE ANS DEC CLEAR, with   *)
(* room for integers beyond 2 ** 53.                                       *)

NextWide ==
    \/ Literal({"1"}, WideLen)
    \/ Exe(WideLen)
    \/ Ans(WideLen)
    \/ Convert({"DEC"}, WideLen)
    \/ Clear

SpecWide == Init /\ [][NextWide]_vars

----------------------------------------------------------------------------
(* nPr and nCr of the function library, applied to small integers.  An     *)
(* outcome is <<"value", k>> or <<"ValueError", 0>>.                       *)

Args == (0 - MaxArg)..MaxArg

RECURSIVE Factorial(_)
Factorial(k) == IF k = 0 THEN 1 ELSE k * Factorial(k - 1)

\* n * (n - 1) * ... * (n - r + 1)
RECURSIVE Falling(_, _)
Falling(n, r) == IF r = 0 THEN 1 ELSE n * Falling(n - 1, r - 1)

Value(k)       == <<"value", k>>
RaisedValueError == <<"ValueError", 0>>

\* math.factorial(a) // math.factorial(b), each raising on a negative number.
FactorialQuotient(a, b) ==
    IF a < 0 \/ b < 0 THEN RaisedValueError
    ELSE Value(Factorial(a) \div Factorial(b))

\* math.perm(n, r)
MathPerm(n, r) ==
    IF n < 0 \/ r < 0 THEN RaisedValueError
    ELSE IF r > n THEN Value(0)
    ELSE Value(Falling(n, r))

\* math.comb(n, r)
MathComb(n, r) ==
    IF n < 0 \/ r < 0 THEN RaisedValueError
    ELSE IF r > n THEN Value(0)
    ELSE Value(Falling(n, r) \div Factorial(r))

\* nPr(n, r); hasPerm is hasattr(math, "perm").
nPr(n, r, hasPerm) ==
    IF hasPerm THEN MathPerm(n, r) ELSE FactorialQuotient(n, n - r)

\* nCr(n, r); hasComb is hasattr(math, "comb").
nCr(n, r, hasComb) ==
    IF hasComb THEN MathComb(n, r)
    ELSE IF n < 0 \/ r < 0 \/ n - r < 0 THEN RaisedValueError
    ELSE Value(Factorial(n) \div (Factorial(r) * Factorial(n - r)))

CallNPr ==
    /\ \E n \in Args, r \in Args, h \in BOOLEAN :
         lib' = [fn |-> "nPr", n |-> n, r |-> r, perm |-> h, out |-> nPr(n, r, h)]
    /\ UNCHANGED <<expression, last_ans, allowed, display, btn, prev, err>>

CallNCr ==
    /\ \E n \in Args, r \in Args, h \in BOOLEAN :
         lib' = [fn |-> "nCr", n |-> n, r |-> r, perm |-> h, out |-> nCr(n, r, h)]
    /\ UNCHANGED <<expression, last_ans, allowed, display, btn, prev, err>>

NextComb == CallNPr \/ CallNCr

SpecComb == Init /\ [][NextComb]_vars

----------------------------------------------------------------------------
(* Properties of the key-press specification Spec.                         *)

ConvButtons == {"HEX", "BIN", "DEC", "OCT"}

\* C2: an EXE whose evaluation raises, and a HEX / BIN / DEC / OCT press
\* whose int(float(last_ans)) raises, shows an error message and leaves the
\* buffer and the last answer as they were before the press.
FailedPressKeepsState ==
    [][(\/ btn' = "EXE" /\ ~Evaluate(expression, allowed).ok
        \/ btn' \in ConvButtons /\ ~IntOfAnswer(last_ans).ok)
       => (err' # NoError /\ expression' = expression /\ last_ans' = last_ans)]_vars

\* C2 happens: EXE on "ln(0)" failed with a domain error while 0 from an
\* earlier EXE is the last answer.
FailedExeSeen ==
    /\ btn = "EXE"
    /\ err = ValueError
    /\ expression = <<"l", "n", "(", "0", ")">>
    /\ last_ans = IntV(<<"0">>)

----------------------------------------------------------------------------
(* Properties of the deletion specification SpecDel.                       *)

MatchingFragments(text) == { f \in Fragments : IsSuffix(f, text) }

LongestMatch(text) ==
    CHOOSE f \in MatchingFragments(text) :
        \A g \in MatchingFragments(text) : Len(g) <= Len(f)

\* C4: DELETE removes the longest fragment of the insertion table that the
\* buffer ends with; when the buffer ends with none it removes one trailing
\* character, and it leaves an empty buffer empty.
DeleteRemovesLongestFragment ==
    [][btn' = "DELETE" =>
         expression' =
           IF MatchingFragments(expression) # {}
           THEN DropLast(expression, Len(LongestMatch(expression)))
           ELSE IF expression = <<>> THEN <<>>
           ELSE DropLast(expression, 1)]_vars

\* C4 happens: DELETE found "jarcsin(" (which ends with "sin(" too) and left "j".
LongestFragmentDeleted ==
    /\ btn = "DELETE"
    /\ prev = <<"j", "a", "r", "c", "s", "i", "n", "(">>
    /\ expression = <<"j">>

\* C6: after every press the display shows the buffer.
DisplayShowsBuffer == display = expression

\* C9 as stated: a DELETE pressed directly after a function button restores
\* the buffer that the function button found.
DeleteUndoesInsert ==
    [][(btn \in InsertButtons /\ btn' = "DELETE") => expression' = prev]_vars

\* The fragment just inserted and the end of the buffer before it together
\* spell a longer fragment of the table ("arc" and "sin(").
Merges(old, frag) ==
    \E f \in Fragments : Len(f) > Len(frag) /\ IsSuffix(f, old \o frag)

\* C9 amended: a DELETE pressed directly after a function button restores
\* the buffer that the function button found, unless the inserted fragment
\* and the end of that buffer together spell a longer fragment of the table.
DeleteUndoesInsertUnlessMerged ==
    [][(btn \in InsertButtons /\ btn' = "DELETE"
        /\ ~Merges(prev, InsertionOf(btn))) => expression' = prev]_vars

\* C9 happens: "r" was left of "random()", DELETE found "rsin(" and
\* restored "r".
InsertUndone ==
    /\ btn = "DELETE"
    /\ prev = <<"r", "s", "i", "n", "(">>
    /\ expression = <<"r">>

----------------------------------------------------------------------------
(* Properties of the evaluation specification SpecEval.                    *)

Count(text, c) == Cardinality({ i \in 1..Len(text) : text[i] = c })

\* The text with max(0, opens - closes) closing parentheses appended.
Closed(text) ==
    LET missing == Count(text, "(") - Count(text, ")")
    IN  text \o [i \in 1..(IF missing > 0 THEN missing ELSE 0) |-> ")"]

\* C1: EXE evaluates the buffer with its unclosed parentheses closed: when
\* the closed text has a value, EXE succeeds and stores that value.
UnclosedParenthesesAreClosed ==
    [][(btn' = "EXE" /\ Evaluate(Closed(expression), allowed).ok)
       => (err' = NoError
           /\ last_ans' = Evaluate(Closed(expression), allowed).val)]_vars

\* The names that the text mentions.
MentionedNames(text) ==
    LET toks == Tokenize(text).toks
    IN  { toks[i].s : i \in { j \in 1..Len(toks) : toks[j].k = "name" } }

LastAnswerIsNumberOrText == last_ans.t \in {"text", "int", "complex"}

----------------------------------------------------------------------------
(* Properties of the base-conversion specification SpecConv.               *)

\* The integer that the text of a conversion stands for.
ValueOfText(txt) == ToNat(Evaluate(txt, {}).val.v)

\* C10: a conversion pressed directly after a successful conversion
\* succeeds and shows the same integer in the base now chosen.
RepeatedConversionKeepsInteger ==
    [][(btn \in ConvButtons /\ err = NoError /\ btn' \in ConvButtons)
       => (/\ err' = NoError
           /\ expression' = ConvertText(btn', ValueOfText(last_ans.v))
           /\ last_ans' = TextV(expression'))]_vars

----------------------------------------------------------------------------
(* Properties of the wide-integer specification SpecWide.                  *)

\* C5: with an integer as the last answer, a conversion succeeds and sets
\* the buffer and the last answer to the text of that integer in the base
\* chosen.
ConversionShowsTheInteger ==
    [][(btn' \in ConvButtons /\ last_ans.t = "int")
       => (/\ err' = NoError
           /\ expression' = ConvertText(btn', ToNat(last_ans.v))
           /\ last_ans' = TextV(expression'))]_vars

----------------------------------------------------------------------------
(* Properties of the library specification SpecComb.                       *)

\* C8: for 0 <= r <= n, nPr is n! / (n - r)! and nCr is n! / (r! (n - r)!);
\* for r > n or a negative argument both raise.
PermCombDefined ==
    lib.fn # "none" =>
        IF 0 <= lib.r /\ lib.r <= lib.n
        THEN lib.out = Value(IF lib.fn = "nPr"
                             THEN Factorial(lib.n) \div Factorial(lib.n - lib.r)
                             ELSE Factorial(lib.n)
                                    \div (Factorial(lib.r) * Factorial(lib.n - lib.r)))
        ELSE lib.out = RaisedValueError

====
